---- MODULE Spec2Model ----
(***************************************************************************)
(* JESD204B lane bring-up of the AXAU15 / ADC08DJ5200RF SoC                *)
(* (axau15_adc08dj5200rf.py, BaseSoC.__init__).                            *)
(*                                                                         *)
(* The model covers the construction of the SoC (lane-count check, lane    *)
(* order / polarity tables, the per-lane GTH4 PHYs, the reordered lane     *)
(* list handed to the RX core) and the hardware the construction produces: *)
(* the AND barrier over the PHYs' tx_init.done / rx_init.done, the reset   *)
(* synchronizer of the jesd clock domain and the link status signal.       *)
(*                                                                         *)
(* AsyncResetSynchronizer is lowered on this Xilinx platform to two FDPE   *)
(* flip-flops (INIT = 1, D of the first tied to 0, the second fed by the   *)
(* first, both asynchronously preset by the async reset input, the second  *)
(* driving cd_jesd.rst).                                                   *)
(***************************************************************************)
EXTENDS Integers, Sequences, FiniteSets, TLC

\* Largest lane count tried as the jesd_lanes argument (0..MaxLanes).
MaxLanes == 9

VARIABLES
    pc,                       \* "init" | "error" | "built": position in BaseSoC.__init__
    error,                    \* exception raised by __init__ ("" when none)
    jesd_lanes,               \* constructor argument
    adc08dj_phy_rx_order,     \* <<>> while unbound
    adc08dj_phy_rx_polarity,  \* <<>> while unbound
    jesd_phys,                \* list of GTH4 PHYs, in physical order
    jesd_phys_rx,             \* list of references (list positions in jesd_phys, 0-based)
    async_reset,              \* ~(jesd_phys_tx_init_done & jesd_phys_rx_init_done)
    resetsync,                \* <<rst_meta, cd_jesd.rst>>; <<>> while not instantiated
    enable,                   \* jesd_rx_core.enable
    jsync,                    \* jesd_rx_core.jsync
    jesd_link_status,         \* self.jesd_link_status
    rst_before                \* history: cd_jesd.rst before the latest step

vars == <<pc, error, jesd_lanes, adc08dj_phy_rx_order, adc08dj_phy_rx_polarity,
          jesd_phys, jesd_phys_rx, async_reset, resetsync, enable, jsync,
          jesd_link_status, rst_before>>

----------------------------------------------------------------------------
(* Construction-time helpers                                               *)

\* Faulty variant: a range check instead of the membership test.
AssertLanesLoose(n) == n <= 8
\* assert jesd_lanes in [4, 8]
AssertLanes(n) == n \in {4, 8}

\* Faulty variant: the last entry of each table repeats a lane.
RxOrderDup(n) ==
    IF n = 8 THEN <<3, 0, 2, 1, 7, 4, 6, 6>>
    ELSE IF n = 4 THEN <<3, 0, 2, 2>>
    ELSE <<>>
\* adc08dj_phy_rx_order: bound only by the two ifs
RxOrder(n) ==
    IF n = 8 THEN <<3, 0, 2, 1, 7, 4, 6, 5>>
    ELSE IF n = 4 THEN <<3, 0, 2, 1>>
    ELSE <<>>

\* adc08dj_phy_rx_polarity: bound only by the two ifs
RxPolarity(n) ==
    IF n = 8 THEN <<0, 0, 0, 0, 1, 1, 1, 1>>
    ELSE IF n = 4 THEN <<0, 0, 0, 0>>
    ELSE <<>>

\* Faulty variant: rx_polarity left at 0 for every lane.
GTH4NoPolarity(i, polarity) ==
    [n |-> i, rx_polarity |-> 0,
     tx_init_done |-> FALSE, rx_init_done |-> FALSE]
\* One GTH4 PHY as built in the loop body for physical lane i (0-based):
\* rx_polarity = adc08dj_phy_rx_polarity[i], jesd_phy.n = i.  The init
\* state machines of the PHY start with done low.
GTH4(i, polarity) ==
    [n |-> i, rx_polarity |-> polarity[i + 1],
     tx_init_done |-> FALSE, rx_init_done |-> FALSE]

\* for i in range(jesd_lanes): ... jesd_phys.append(jesd_phy)
BuildPhys(n, polarity) == [k \in 1..n |-> GTH4(k - 1, polarity)]

\* jesd_phys_rx = [jesd_phys[n] for n in adc08dj_phy_rx_order]
Reorder(phys, order) == [k \in 1..Len(order) |-> order[k]]

\* The PHY object at logical position k (0-based) of jesd_phys_rx.
LogicalLane(k) == jesd_phys[jesd_phys_rx[k + 1] + 1]

----------------------------------------------------------------------------
(* Combinational logic                                                     *)

\* reduce(and_, xs): left fold of & over a non-empty list
RECURSIVE reduce_and(_)
reduce_and(xs) ==
    IF Len(xs) = 1 THEN xs[1]
    ELSE reduce_and(SubSeq(xs, 1, Len(xs) - 1)) /\ xs[Len(xs)]

jesd_phys_tx_init_done(phys) ==
    reduce_and([k \in 1..Len(phys) |-> phys[k].tx_init_done])

jesd_phys_rx_init_done(phys) ==
    reduce_and([k \in 1..Len(phys) |-> phys[k].rx_init_done])

\* Faulty variant: the unused tx side left out of the barrier.
AsyncResetRxOnly(phys) == ~ jesd_phys_rx_init_done(phys)
\* ~(jesd_phys_tx_init_done & jesd_phys_rx_init_done)
AsyncReset(phys) ==
    ~ (jesd_phys_tx_init_done(phys) /\ jesd_phys_rx_init_done(phys))

\* Faulty variant: | in place of &.
LinkStatusOr(e, j) == (e \/ j) /\ (e \/ j)
\* (enable & jsync) & (enable & jsync)
LinkStatus(e, j) == (e /\ j) /\ (e /\ j)

----------------------------------------------------------------------------
(* AsyncResetSynchronizer(self.cd_jesd, async_reset)                       *)

\* Faulty variants: no asynchronous preset; preset wired to the first flop only.
PresetNone(ar, ff) == ff
PresetFirstOnly(ar, ff) == IF ar THEN <<1, ff[2]>> ELSE ff
\* Asynchronous preset of both flip-flops while the async reset is high.
Preset(ar, ff) == IF ar THEN <<1, 1>> ELSE ff

\* Faulty variants: first flop's D tied to 1; preset not overriding the clock;
\* a single stage.
ClkEdgeStuck(ar, ff) == <<1, ff[1]>>
ClkEdgeNoPreset(ar, ff) == <<0, ff[1]>>
ClkEdgeOneStage(ar, ff) == IF ar THEN <<1, 1>> ELSE <<0, 0>>
\* Rising edge of cd_jesd.clk: first flop samples 0, second samples the first;
\* the preset overrides the clocked update.
ClkEdge(ar, ff) == IF ar THEN <<1, 1>> ELSE <<0, ff[1]>>

rst_meta == resetsync[1]
cd_jesd_rst == resetsync[2]

----------------------------------------------------------------------------
(* State machine                                                           *)

Init ==
    /\ pc = "init"
    /\ error = ""
    /\ jesd_lanes \in 0..MaxLanes
    /\ adc08dj_phy_rx_order = <<>>
    /\ adc08dj_phy_rx_polarity = <<>>
    /\ jesd_phys = <<>>
    /\ jesd_phys_rx = <<>>
    /\ async_reset = TRUE
    /\ resetsync = <<>>
    /\ enable = FALSE
    /\ jsync = FALSE
    /\ jesd_link_status = FALSE
    /\ rst_before = 1

\* BaseSoC.__init__(jesd_lanes): the assertion on the lane count, then the
\* tables, the PHYs, the reset synchronizer, the reordered lane list and the
\* link status.  Past the assertion with neither table bound, ps_rx is
\* unbound where JESD204BSettings(ps_rx, ...) reads it, before any PHY exists.
BaseSoC_init ==
    /\ pc = "init"
    /\ IF ~ AssertLanes(jesd_lanes)
       THEN /\ pc' = "error"
            /\ error' = "AssertionError"
            /\ UNCHANGED <<adc08dj_phy_rx_order, adc08dj_phy_rx_polarity,
                           jesd_phys, jesd_phys_rx, async_reset, resetsync,
                           jesd_link_status>>
       ELSE IF RxOrder(jesd_lanes) = <<>>
       THEN /\ pc' = "error"
            /\ error' = "NameError"
            /\ UNCHANGED <<adc08dj_phy_rx_order, adc08dj_phy_rx_polarity,
                           jesd_phys, jesd_phys_rx, async_reset, resetsync,
                           jesd_link_status>>
       ELSE /\ pc' = "built"
            /\ error' = error
            /\ adc08dj_phy_rx_order' = RxOrder(jesd_lanes)
            /\ adc08dj_phy_rx_polarity' = RxPolarity(jesd_lanes)
            /\ jesd_phys' = BuildPhys(jesd_lanes, adc08dj_phy_rx_polarity')
            /\ jesd_phys_rx' = Reorder(jesd_phys', adc08dj_phy_rx_order')
            /\ async_reset' = AsyncReset(jesd_phys')
            /\ resetsync' = Preset(async_reset', <<1, 1>>)
            /\ jesd_link_status' = LinkStatus(enable, jsync)
    /\ rst_before' = 1
    /\ UNCHANGED <<jesd_lanes, enable, jsync>>

\* The transceiver of physical lane i changes tx_init.done (external).
TxInitDone(i, v) ==
    /\ pc = "built"
    /\ jesd_phys[i + 1].tx_init_done # v
    /\ jesd_phys' = [jesd_phys EXCEPT ![i + 1].tx_init_done = v]
    /\ async_reset' = AsyncReset(jesd_phys')
    /\ resetsync' = Preset(async_reset', resetsync)
    /\ rst_before' = cd_jesd_rst
    /\ UNCHANGED <<pc, error, jesd_lanes, adc08dj_phy_rx_order,
                   adc08dj_phy_rx_polarity, jesd_phys_rx, enable, jsync,
                   jesd_link_status>>

\* The transceiver of physical lane i changes rx_init.done (external).
RxInitDone(i, v) ==
    /\ pc = "built"
    /\ jesd_phys[i + 1].rx_init_done # v
    /\ jesd_phys' = [jesd_phys EXCEPT ![i + 1].rx_init_done = v]
    /\ async_reset' = AsyncReset(jesd_phys')
    /\ resetsync' = Preset(async_reset', resetsync)
    /\ rst_before' = cd_jesd_rst
    /\ UNCHANGED <<pc, error, jesd_lanes, adc08dj_phy_rx_order,
                   adc08dj_phy_rx_polarity, jesd_phys_rx, enable, jsync,
                   jesd_link_status>>

\* Rising edge of the jesd clock.
JesdClk ==
    /\ pc = "built"
    /\ resetsync' = ClkEdge(async_reset, resetsync)
    /\ rst_before' = cd_jesd_rst
    /\ UNCHANGED <<pc, error, jesd_lanes, adc08dj_phy_rx_order,
                   adc08dj_phy_rx_polarity, jesd_phys, jesd_phys_rx,
                   async_reset, enable, jsync, jesd_link_status>>

\* The RX core changes its enable / jsync outputs (external).
LinkCore(e, j) ==
    /\ pc = "built"
    /\ <<e, j>> # <<enable, jsync>>
    /\ enable' = e
    /\ jsync' = j
    /\ jesd_link_status' = LinkStatus(e, j)
    /\ rst_before' = cd_jesd_rst
    /\ UNCHANGED <<pc, error, jesd_lanes, adc08dj_phy_rx_order,
                   adc08dj_phy_rx_polarity, jesd_phys, jesd_phys_rx,
                   async_reset, resetsync>>

Next ==
    \/ BaseSoC_init
    \/ \E i \in 0..(Len(jesd_phys) - 1), v \in BOOLEAN : TxInitDone(i, v)
    \/ \E i \in 0..(Len(jesd_phys) - 1), v \in BOOLEAN : RxInitDone(i, v)
    \/ JesdClk
    \/ \E e \in BOOLEAN, j \in BOOLEAN : LinkCore(e, j)

Spec == Init /\ [][Next]_vars

\* The jesd clock keeps running.
LiveSpec == Spec /\ WF_vars(JesdClk)

----------------------------------------------------------------------------
(* Vocabulary of the properties                                            *)

Built == pc = "built"

\* Every lane i in 0..N-1 reports tx_done(i) and rx_done(i).
AllReady ==
    \A i \in 1..Len(jesd_phys) :
        jesd_phys[i].tx_init_done /\ jesd_phys[i].rx_init_done

\* Lane i (0-based) reports both done signals.
LaneReady(i) ==
    jesd_phys[i + 1].tx_init_done /\ jesd_phys[i + 1].rx_init_done

HeldReset == Built /\ cd_jesd_rst = 1
Active == Built /\ cd_jesd_rst = 0

----------------------------------------------------------------------------
(* Properties                                                              *)

\* C1: for N in {4, 8} and every assignment of the done signals, the barrier
\* (the negation of the synchronizer's async reset input) is true iff every
\* lane has both tx_done and rx_done; any lane with a done signal low, also
\* one whose rx is done and whose tx is not, makes it false.
C1_BarrierIsStrictAnd ==
    Built =>
        /\ jesd_lanes \in {4, 8}
        /\ Len(jesd_phys) = jesd_lanes
        /\ (~ async_reset) <=> AllReady
        /\ (\E i \in 0..(jesd_lanes - 1) : ~ LaneReady(i)) => async_reset

C1_Witness ==
    /\ Built
    /\ jesd_lanes = 8
    /\ jesd_phys[3].rx_init_done /\ ~ jesd_phys[3].tx_init_done
    /\ \A i \in 0..7 : i # 2 => LaneReady(i)
    /\ async_reset

\* C2: the jesd domain is held in reset whenever all_ready is false (ACTIVE
\* implies all_ready), in every reachable state; no timeout or threshold
\* releases it while a lane is not done.
C2_ActiveImpliesAllReady ==
    /\ Active => AllReady
    /\ (Built /\ ~ AllReady) => HeldReset

C2_Witness ==
    /\ Built
    /\ jesd_lanes = 8
    /\ \A i \in 0..3 : LaneReady(i)
    /\ \A i \in 4..7 : ~ jesd_phys[i + 1].tx_init_done
                       /\ ~ jesd_phys[i + 1].rx_init_done
    /\ HeldReset

\* C3: lane flap: a step that takes a done signal away while the domain is
\* ACTIVE leaves the domain in HELD_RESET (the preset is asynchronous, so
\* well within one resynchronization cycle); ACTIVE is never kept past the
\* loss of a lane, at every such step of a behaviour.
C3_LaneFlapReentersReset ==
    [][(Active /\ ~ AllReady') => HeldReset']_vars

C3_Witness ==
    /\ HeldReset
    /\ rst_before = 0
    /\ ~ AllReady
    /\ rst_meta = 1

\* C4: with the jesd clock running, once every lane reports tx_done and
\* rx_done the domain becomes ACTIVE unless a lane loses done first, and an
\* ACTIVE domain stays ACTIVE across every step that leaves all_ready true.
C4_BringUpCompletes ==
    /\ (Built /\ AllReady) ~> (Active \/ ~ AllReady)
    /\ [][(Active /\ AllReady') => Active']_vars

C4_Witness ==
    /\ Active
    /\ jesd_lanes = 4
    /\ AllReady
    /\ rst_before = 0

\* C5: the lookup gives order [3,0,2,1], polarity [0,0,0,0] for 4 lanes and
\* order [3,0,2,1,7,4,6,5], polarity [0,0,0,0,1,1,1,1] for 8 lanes; both have
\* length lane_count and order is a permutation of 0..lane_count-1.
C5_RemapTables ==
    Built =>
        /\ jesd_lanes = 4 =>
               /\ adc08dj_phy_rx_order = <<3, 0, 2, 1>>
               /\ adc08dj_phy_rx_polarity = <<0, 0, 0, 0>>
        /\ jesd_lanes = 8 =>
               /\ adc08dj_phy_rx_order = <<3, 0, 2, 1, 7, 4, 6, 5>>
               /\ adc08dj_phy_rx_polarity = <<0, 0, 0, 0, 1, 1, 1, 1>>
        /\ Len(adc08dj_phy_rx_order) = jesd_lanes
        /\ Len(adc08dj_phy_rx_polarity) = jesd_lanes
        /\ {adc08dj_phy_rx_order[k] : k \in 1..jesd_lanes} = 0..(jesd_lanes - 1)
        /\ \A k \in 1..jesd_lanes : adc08dj_phy_rx_polarity[k] \in {0, 1}

C5_Witness ==
    /\ Built
    /\ jesd_lanes = 8
    /\ adc08dj_phy_rx_order[5] = 7
    /\ adc08dj_phy_rx_polarity[5] = 1

\* C6: the lane handed to the link-layer core at logical position k is
\* physical lane order[k], and its receive polarity is inverted iff
\* polarity[k] is set, although rx_polarity is taken from the table by
\* physical index before the lanes are reordered.
C6_LogicalLaneWiring ==
    Built =>
        /\ Len(jesd_phys_rx) = jesd_lanes
        /\ \A k \in 0..(jesd_lanes - 1) :
               /\ LogicalLane(k).n = adc08dj_phy_rx_order[k + 1]
               /\ (LogicalLane(k).rx_polarity = 1)
                      <=> (adc08dj_phy_rx_polarity[k + 1] = 1)

C6_Witness ==
    /\ Built
    /\ jesd_lanes = 8
    /\ LogicalLane(0).n = 3 /\ LogicalLane(0).rx_polarity = 0
    /\ LogicalLane(4).n = 7 /\ LogicalLane(4).rx_polarity = 1

\* C7: for a lane count outside {4, 8} the constructor fails on its
\* assertion: no table is selected, no lane, no reset synchronizer and no
\* lane list is created, and the SoC is never built.
C7_UnsupportedCountRejected ==
    (jesd_lanes \notin {4, 8}) =>
        /\ pc \in {"init", "error"}
        /\ pc = "error" => error = "AssertionError"
        /\ adc08dj_phy_rx_order = <<>>
        /\ adc08dj_phy_rx_polarity = <<>>
        /\ jesd_phys = <<>>
        /\ jesd_phys_rx = <<>>
        /\ resetsync = <<>>

C7_Witness ==
    /\ jesd_lanes = 5
    /\ pc = "error"
    /\ error = "AssertionError"

\* C8: link_status equals link_enable AND sync_achieved in every state, for
\* each combination of the two inputs, whatever the earlier values, the lane
\* done signals and the state of the domain reset.
C8_LinkStatusIsAnd ==
    jesd_link_status <=> (enable /\ jsync)

C8_Witness ==
    /\ Built
    /\ enable /\ jsync
    /\ jesd_link_status
    /\ HeldReset

\* C9: the domain is HELD_RESET or ACTIVE; it goes HELD_RESET -> ACTIVE only
\* with all_ready true before and after the step (all_ready is false when
\* the SoC is built, so after a rising edge of it) and never on a step of the
\* link inputs; it goes ACTIVE -> HELD_RESET only on a step that makes
\* all_ready false; every other step leaves the domain state unchanged.
C9_OnlyTwoTransitions ==
    [][/\ (pc = "init" /\ Built') => (HeldReset' /\ ~ AllReady')
       /\ Built =>
           /\ Built'
           /\ cd_jesd_rst \in {0, 1} /\ cd_jesd_rst' \in {0, 1}
           /\ (HeldReset /\ Active') =>
                  /\ AllReady /\ AllReady'
                  /\ enable' = enable /\ jsync' = jsync
           /\ (Active /\ HeldReset') => (AllReady /\ ~ AllReady')
           /\ (<<enable', jsync'>> # <<enable, jsync>>) =>
                  cd_jesd_rst' = cd_jesd_rst
           /\ (~ AllReady /\ ~ AllReady') => cd_jesd_rst' = cd_jesd_rst
      ]_vars

C9_Witness ==
    /\ Active
    /\ rst_before = 1
    /\ ~ enable /\ ~ jsync

\* C10: the release is resynchronized: the domain is not ACTIVE after the
\* step on which all_ready rises; it becomes ACTIVE only on a clock step
\* (lane signals unchanged) with all_ready true before and after it and with
\* the first synchronizer stage already cleared by an earlier clock step, so
\* an all_ready pulse that ends before that never releases the domain.
C10_ReleaseIsResynchronized ==
    [][Built =>
           /\ (~ AllReady /\ AllReady') => HeldReset'
           /\ (HeldReset /\ Active') =>
                  /\ AllReady /\ AllReady'
                  /\ jesd_phys' = jesd_phys
                  /\ rst_meta = 0
           /\ (HeldReset /\ rst_meta = 1) => HeldReset'
      ]_vars

C10_Witness ==
    /\ Active
    /\ rst_before = 1
    /\ jesd_lanes = 8
    /\ rst_meta = 0

====
